---- MODULE Spec2Model ----
(***************************************************************************)
(* Model of the POST /interpret handler of Client_With_FastMCP/Backend/    *)
(* backend.py: validation, tool-catalog aggregation over the configured    *)
(* MCP backends, the Gemini decision, owner lookup and tool execution.     *)
(* One request is followed from its arrival to its response.  The          *)
(* environment (request body, environment variables, what each backend     *)
(* serves, which remote calls fail, what the model answers) is chosen      *)
(* nondeterministically.                                                   *)
(***************************************************************************)
EXTENDS Integers, Sequences, FiniteSets, TLC

\* Number of tool names a backend catalog is drawn from.
MaxTools == 2

\* The handler reads two endpoint variables, FASTMCP_URL and
\* FASTMCP_FOODCARD_URL, in this order.
NumEndpoints == 2

Endpoints == 1..NumEndpoints

\* Python's None, as opposed to the string "None".
NoneVal == "<null>"

\* A field that is not present in a response.
Absent == "<absent>"

\* Tool names registered by the two servers of the repository.
ToolNameTable ==
    << "add_expense", "list_expenses", "summarize", "update_expense",
       "delete_expense", "add_card_action", "list_card_actions",
       "update_card_action", "delete_card_action" >>

KnownTools == { ToolNameTable[i] : i \in 1..MaxTools }

\* A name no backend registers.
UnknownTool == "no_such_tool"

\* A backend's catalog: the names it serves, in registration order.
RECURSIVE CatalogOf(_, _)
CatalogOf(S, i) ==
    IF i > MaxTools THEN << >>
    ELSE (IF ToolNameTable[i] \in S THEN << ToolNameTable[i] >> ELSE << >>)
         \o CatalogOf(S, i + 1)

Catalogs == { CatalogOf(S, 1) : S \in SUBSET KnownTools }

\* Values of the request body's "message" (None when the key is missing).
Messages == { NoneVal, "", " ", "Add 200 for September rent" }

\* Values os.getenv can return.
KeyValues == { NoneVal, "", "key" }
UrlValues == { NoneVal, "", "http://mcp" }

\* Opaque parameter objects the model can return ("oops" is a JSON string,
\* not an object).
EmptyParams == "{}"
SomeParams == "{\"amount\": 200}"
NonObjectParams == "\"oops\""
ParamValues == { EmptyParams, SomeParams, NonObjectParams }

\* What call_tool returns, and the exception text when it raises.
ToolResult == "<tool result>"
ToolError == "<tool error>"

--------------------------------------------------------------------------
\* Python truthiness of a value that is None or a string.
FalsyNoneOnly(v) == v = NoneVal

Falsy(v) == v = NoneVal \/ v = ""

--------------------------------------------------------------------------
(* JSON values the model can answer with.  An object is described by the   *)
(* keys it has and the values of "tool" and "params"; tool = NoneVal is    *)
(* JSON null.                                                              *)
DecisionKeys == { "tool", "params" }

ToolValues == { NoneVal, "None", "", UnknownTool } \cup KnownTools

JsonObject(keys, tool, params) ==
    [ kind |-> "object", keys |-> keys,
      tool |-> IF "tool" \in keys THEN tool ELSE NoneVal,
      params |-> IF "params" \in keys THEN params ELSE EmptyParams ]

JsonArray == [ kind |-> "array", keys |-> {}, tool |-> NoneVal,
               params |-> EmptyParams ]

JsonValues ==
    { JsonArray } \cup
    { JsonObject(k, t, p) : k \in SUBSET DecisionKeys, t \in ToolValues,
                            p \in ParamValues }

\* The text of a JSON value.
JsonString(s) == "\"" \o s \o "\""

JsonDumps(v) ==
    IF v.kind = "array" THEN "[]"
    ELSE LET t == IF "tool" \in v.keys
                  THEN "\"tool\": " \o
                       (IF v.tool = NoneVal THEN "null" ELSE JsonString(v.tool))
                  ELSE ""
             sep == IF v.keys = DecisionKeys THEN ", " ELSE ""
             p == IF "params" \in v.keys
                  THEN "\"params\": " \o v.params
                  ELSE ""
         IN "{" \o t \o sep \o p \o "}"

\* Texts generate_content can return: every JSON text above and texts that
\* are not JSON.
MalformedTexts == { "", "Sure! Here is the JSON", "{\"tool\": " }

ResponseTexts == { JsonDumps(v) : v \in JsonValues } \cup MalformedTexts

\* json.loads: the value of a JSON text, or an exception.
JsonLoads(text) ==
    IF \E v \in JsonValues : JsonDumps(v) = text
    THEN [ ok |-> TRUE, value |-> CHOOSE v \in JsonValues : JsonDumps(v) = text ]
    ELSE [ ok |-> FALSE, value |-> JsonArray ]

\* dict.get(key, default) on a parsed object.
DictGet(d, key, default) == IF key \in d.keys THEN d[key] ELSE default

\* TOOL_CALL_SCHEMA: an object with a string "tool" and an object "params",
\* both required.
ConformsToSchema(v) ==
    /\ v.kind = "object"
    /\ v.keys = DecisionKeys
    /\ v.tool # NoneVal
    /\ v.params # NonObjectParams

FallbackDecision == JsonObject(DecisionKeys, NoneVal, EmptyParams)

\* What the model call did: it raised, or it returned a text.
GenaiOutcomes ==
    { [ raised |-> TRUE, text |-> "" ] } \cup
    { [ raised |-> FALSE, text |-> t ] : t \in ResponseTexts }

NoOutcome == [ raised |-> FALSE, text |-> Absent ]

--------------------------------------------------------------------------
\* Responses of the handler.
NoResponse ==
    [ status |-> 0, kind |-> "none", tool |-> Absent, params |-> Absent,
      result |-> Absent, executed_from |-> 0, detail |-> Absent,
      detail_tool |-> Absent, detail_backend |-> 0, detail_cause |-> Absent ]

HttpError(status, detail) ==
    [ NoResponse EXCEPT !.status = status, !.kind = "http_exception",
                        !.detail = detail ]

\* An exception that is not an HTTPException leaves the handler: the
\* framework answers 500.
Unhandled(what) ==
    [ NoResponse EXCEPT !.status = 500, !.kind = "unhandled",
                        !.detail = what ]

Envelope(tool, params, result, from) ==
    [ NoResponse EXCEPT !.status = 200, !.kind = "envelope", !.tool = tool,
                        !.params = params, !.result = result,
                        !.executed_from = from ]

NoMatchEnvelope == Envelope(NoneVal, EmptyParams, "No matching tool found.", 0)

NotFoundEnvelope(tool, params) ==
    Envelope(tool, params, "Tool not found in any client.", 0)

--------------------------------------------------------------------------
VARIABLES
    pc,            \* where the handler is
    message,       \* user_input.get("message")
    apiKey,        \* GOOGLE_API_KEY
    urls,          \* the endpoint variables, in the order they are read
    catalog,       \* what each endpoint's server serves
    clients,       \* the clients list
    idx,           \* position of the running loop in clients
    conn,          \* state of each client's connection
    all_tools,     \* the merged catalog
    genai,         \* what generate_content did
    llm_result,    \* the decision interpret_with_gemini returned
    tool_name, params, selected_client,
    response,      \* what the caller receives
    \* calls made to the outside, recorded as they happen
    connectAttempts, connectFailed,
    aggListCalls, aggListFailed,
    scanListCalls, scanListFailed,
    llmCalls, toolCalls, toolCallOutcome

vars == << pc, message, apiKey, urls, catalog, clients, idx, conn, all_tools,
           genai, llm_result, tool_name, params, selected_client, response,
           connectAttempts, connectFailed, aggListCalls, aggListFailed,
           scanListCalls, scanListFailed, llmCalls, toolCalls,
           toolCallOutcome >>

envVars == << message, apiKey, urls, catalog >>

callVars == << connectAttempts, connectFailed, aggListCalls, aggListFailed,
               scanListCalls, scanListFailed, llmCalls, toolCalls,
               toolCallOutcome >>

Init ==
    /\ pc = "start"
    /\ message \in Messages
    /\ apiKey \in KeyValues
    /\ urls \in [ Endpoints -> UrlValues ]
    /\ catalog \in [ Endpoints -> Catalogs ]
    /\ clients = << >>
    /\ idx = 0
    /\ conn = [ e \in Endpoints |-> "new" ]
    /\ all_tools = << >>
    /\ genai = NoOutcome
    /\ llm_result = FallbackDecision
    /\ tool_name = NoneVal
    /\ params = EmptyParams
    /\ selected_client = 0
    /\ response = NoResponse
    /\ connectAttempts = {}
    /\ connectFailed = {}
    /\ aggListCalls = {}
    /\ aggListFailed = {}
    /\ scanListCalls = {}
    /\ scanListFailed = {}
    /\ llmCalls = 0
    /\ toolCalls = {}
    /\ toolCallOutcome = "none"

--------------------------------------------------------------------------
\* The request is answered: nothing else of the handler runs.
Finish(resp) ==
    /\ pc' = "done"
    /\ response' = resp

\* if not message: raise HTTPException(400)
RejectMissingMessage ==
    /\ pc = "start"
    /\ Falsy(message)
    /\ Finish(HttpError(400, "Missing 'message' field"))
    /\ UNCHANGED << envVars, callVars, clients, idx, conn, all_tools, genai,
                    llm_result, tool_name, params, selected_client >>

\* if not API_KEY: raise HTTPException(500)
RejectMissingKey ==
    /\ pc = "start"
    /\ ~Falsy(message)
    /\ Falsy(apiKey)
    /\ Finish(HttpError(500, "GOOGLE_API_KEY not set"))
    /\ UNCHANGED << envVars, callVars, clients, idx, conn, all_tools, genai,
                    llm_result, tool_name, params, selected_client >>

\* The clients list: one client per endpoint variable that is set, in the
\* order the variables are read.
RECURSIVE ConfiguredFrom(_, _)
ConfiguredFrom(u, e) ==
    IF e > NumEndpoints THEN << >>
    ELSE (IF ~Falsy(u[e]) THEN << e >> ELSE << >>) \o ConfiguredFrom(u, e + 1)

RECURSIVE AllFrom(_, _)
AllFrom(u, e) ==
    IF e > NumEndpoints THEN << >> ELSE << e >> \o AllFrom(u, e + 1)

ConfiguredClientsNoCheck(u) == AllFrom(u, 1)

ConfiguredClients(u) == ConfiguredFrom(u, 1)

\* if not clients: raise HTTPException(500)
RejectNoEndpoints ==
    /\ pc = "start"
    /\ ~Falsy(message)
    /\ ~Falsy(apiKey)
    /\ ConfiguredClients(urls) = << >>
    /\ clients' = ConfiguredClients(urls)
    /\ Finish(HttpError(500, "No MCP endpoints configured"))
    /\ UNCHANGED << envVars, callVars, idx, conn, all_tools, genai,
                    llm_result, tool_name, params, selected_client >>

\* Validation passed: the clients are built and the aggregation loop starts.
BuildClients ==
    /\ pc = "start"
    /\ ~Falsy(message)
    /\ ~Falsy(apiKey)
    /\ ConfiguredClients(urls) # << >>
    /\ clients' = ConfiguredClients(urls)
    /\ idx' = 1
    /\ pc' = "connect"
    /\ UNCHANGED << envVars, callVars, conn, all_tools, genai, llm_result,
                    tool_name, params, selected_client, response >>

--------------------------------------------------------------------------
\* Leaving the "async with AsyncExitStack()" block, by return or by
\* exception: every context that was entered is exited.
ExitStackLeak(c) == c

ExitStack(c) == [ e \in Endpoints |-> IF c[e] = "open" THEN "closed" ELSE c[e] ]

\* The descriptors list_tools returns from endpoint e.
ListTools(e) ==
    [ i \in 1..Len(catalog[e]) |-> [ name |-> catalog[e][i], origin |-> e ] ]

\* all_tools.extend(tools)
ExtendOverwrite(all, tools) == tools

Extend(all, tools) == all \o tools

\* await stack.enter_async_context(c), which is outside the try: when it
\* raises, the exception leaves the handler through the exit stack.
Connect ==
    /\ pc = "connect"
    /\ LET c == clients[idx] IN
       /\ connectAttempts' = connectAttempts \cup { c }
       /\ \/ /\ conn' = [ conn EXCEPT ![c] = "open" ]
             /\ pc' = "list"
             /\ UNCHANGED << connectFailed, response >>
          \/ /\ connectFailed' = connectFailed \cup { c }
             /\ conn' = ExitStack(conn)
             /\ Finish(Unhandled("connect failed"))
    /\ UNCHANGED << envVars, clients, idx, all_tools, genai, llm_result,
                    tool_name, params, selected_client, aggListCalls,
                    aggListFailed, scanListCalls, scanListFailed, llmCalls,
                    toolCalls, toolCallOutcome >>

\* tools = await c.list_tools(); all_tools.extend(tools), with the except
\* branch that prints a warning.  Then the loop goes to the next client, or
\* ends.
ListForCatalog ==
    /\ pc = "list"
    /\ LET c == clients[idx] IN
       /\ aggListCalls' = aggListCalls \cup { c }
       /\ \/ /\ all_tools' = Extend(all_tools, ListTools(c))
             /\ UNCHANGED aggListFailed
          \/ /\ aggListFailed' = aggListFailed \cup { c }
             /\ UNCHANGED all_tools
    /\ idx' = idx + 1
    /\ pc' = IF idx < Len(clients) THEN "connect" ELSE "llm"
    /\ UNCHANGED << envVars, clients, conn, genai, llm_result, tool_name,
                    params, selected_client, response, connectAttempts,
                    connectFailed, scanListCalls, scanListFailed, llmCalls,
                    toolCalls, toolCallOutcome >>

\* interpret_with_gemini: the try around generate_content and json.loads,
\* and the except that returns the fallback.
InterpretWithGemini(outcome) ==
    IF outcome.raised THEN FallbackDecision
    ELSE IF JsonLoads(outcome.text).ok THEN JsonLoads(outcome.text).value
    ELSE FallbackDecision

\* if not tool_name or tool_name == "None"
IsNoToolFalsyOnly(name) == Falsy(name)

IsNoTool(name) == Falsy(name) \/ name = "None"

\* llm_result = await interpret_with_gemini(...), the two .get calls and the
\* "no tool" return.  llm_result.get raises AttributeError when the model's
\* JSON is not an object.
Interpret ==
    /\ pc = "llm"
    /\ \E outcome \in GenaiOutcomes :
        LET d == InterpretWithGemini(outcome)
            t == DictGet(d, "tool", NoneVal)
            p == DictGet(d, "params", EmptyParams)
        IN /\ genai' = outcome
           /\ llm_result' = d
           /\ llmCalls' = llmCalls + 1
           /\ IF d.kind # "object"
              THEN /\ conn' = ExitStack(conn)
                   /\ Finish(Unhandled("AttributeError"))
                   /\ UNCHANGED << tool_name, params, idx >>
              ELSE /\ tool_name' = t
                   /\ params' = p
                   /\ IF IsNoTool(t)
                      THEN /\ conn' = ExitStack(conn)
                           /\ Finish(NoMatchEnvelope)
                           /\ UNCHANGED idx
                      ELSE /\ pc' = "scan"
                           /\ idx' = 1
                           /\ UNCHANGED << conn, response >>
    /\ UNCHANGED << envVars, clients, all_tools, selected_client,
                    connectAttempts, connectFailed, aggListCalls,
                    aggListFailed, scanListCalls, scanListFailed, toolCalls,
                    toolCallOutcome >>

\* any(t.name == tool_name for t in tools)
HasToolAnyName(tools, name) == Len(tools) > 0

HasTool(tools, name) == \E i \in 1..Len(tools) : tools[i].name = name

\* Where the owner loop goes after a match at position i of n clients: the
\* break leaves the loop.
AfterMatchNoBreak(i, n) == i + 1

AfterMatch(i, n) == n + 1

\* One iteration of "for c in clients" of the owner lookup: list_tools in a
\* try whose except continues with the next client.  After the loop,
\* "if not selected_client" returns the not-found envelope.
FindOwner ==
    /\ pc = "scan"
    /\ LET c == clients[idx]
           n == Len(clients)
       IN /\ scanListCalls' = scanListCalls \cup { c }
          /\ \E ok \in BOOLEAN :
              LET match == ok /\ HasTool(ListTools(c), tool_name)
                  sel == IF match THEN c ELSE selected_client
                  nxt == IF match THEN AfterMatch(idx, n) ELSE idx + 1
              IN /\ scanListFailed' =
                        IF ok THEN scanListFailed ELSE scanListFailed \cup { c }
                 /\ selected_client' = sel
                 /\ idx' = nxt
                 /\ IF nxt <= n
                    THEN UNCHANGED << pc, conn, response >>
                    ELSE IF sel = 0
                    THEN /\ conn' = ExitStack(conn)
                         /\ Finish(NotFoundEnvelope(tool_name, params))
                    ELSE /\ pc' = "call"
                         /\ UNCHANGED << conn, response >>
    /\ UNCHANGED << envVars, clients, all_tools, genai, llm_result, tool_name,
                    params, connectAttempts, connectFailed, aggListCalls,
                    aggListFailed, llmCalls, toolCalls, toolCallOutcome >>

\* The except branch of the execution: HTTPException(500) whose detail is
\* f"Error calling tool '{tool_name}' on {selected_client}: {e}".
ToolFailureAsStatus(tool, client, prm, cause) ==
    Envelope(tool, prm, cause, client)

ToolFailure(tool, client, prm, cause) ==
    [ HttpError(500, "Error calling tool") EXCEPT
        !.detail_tool = tool, !.detail_backend = client,
        !.detail_cause = cause ]

\* result = await selected_client.call_tool(tool_name, params) and the two
\* ways out of it.
CallTool ==
    /\ pc = "call"
    /\ toolCalls' = toolCalls \cup { selected_client }
    /\ \/ /\ toolCallOutcome' = "ok"
          /\ Finish(Envelope(tool_name, params, ToolResult, selected_client))
       \/ /\ toolCallOutcome' = "raised"
          /\ Finish(ToolFailure(tool_name, selected_client, params, ToolError))
    /\ conn' = ExitStack(conn)
    /\ UNCHANGED << envVars, clients, idx, all_tools, genai, llm_result,
                    tool_name, params, selected_client, connectAttempts,
                    connectFailed, aggListCalls, aggListFailed, scanListCalls,
                    scanListFailed, llmCalls >>

Next ==
    \/ RejectMissingMessage
    \/ RejectMissingKey
    \/ RejectNoEndpoints
    \/ BuildClients
    \/ Connect
    \/ ListForCatalog
    \/ Interpret
    \/ FindOwner
    \/ CallTool

Spec == Init /\ [][Next]_vars

TypeOK ==
    /\ pc \in { "start", "connect", "list", "llm", "scan", "call", "done" }
    /\ llmCalls \in 0..1
    /\ (pc = "done") = (response.status # 0)

--------------------------------------------------------------------------
(* Properties.                                                             *)

Done == pc = "done"

Range(q) == { q[i] : i \in 1..Len(q) }

\* No connection, catalog fetch, model call or tool invocation has happened.
NoOutsideCalls ==
    /\ connectAttempts = {}
    /\ aggListCalls = {}
    /\ scanListCalls = {}
    /\ llmCalls = 0
    /\ toolCalls = {}
    /\ \A e \in Endpoints : conn[e] = "new"

\* Endpoint e's server registers a tool called name.
Serves(e, name) == \E i \in 1..Len(catalog[e]) : catalog[e][i] = name

MissingFieldError == HttpError(400, "Missing 'message' field")

\* C1, as stated: a request whose message is empty or only whitespace is
\* rejected with the 400 missing-field error and makes no backend
\* connection, catalog fetch, tool invocation or model call.
C1_BlankMessageRejected ==
    message \in { "", " " } =>
        /\ NoOutsideCalls
        /\ Done => response = MissingFieldError

\* C1, amended: a request whose message is missing or the empty string is
\* rejected with the 400 missing-field error and makes no backend
\* connection, catalog fetch, tool invocation or model call.
C1_EmptyMessageRejected ==
    message \in { NoneVal, "" } =>
        /\ NoOutsideCalls
        /\ pc \in { "start", "done" }
        /\ Done => response = MissingFieldError

C1_Witness == Done /\ message = "" /\ response = MissingFieldError

\* The model interaction failed: generate_content raised, or its text is
\* not JSON, or the JSON does not conform to TOOL_CALL_SCHEMA.
ModelInteractionFailed ==
    /\ llmCalls = 1
    /\ \/ genai.raised
       \/ ~JsonLoads(genai.text).ok
       \/ ~ConformsToSchema(JsonLoads(genai.text).value)

\* C2: every failure of the model interaction is absorbed: the decision
\* used is {tool: null, params: {}} and the response is the 200 envelope
\* {tool: null, params: {}, result: "No matching tool found."}.
C2_ModelFailureAbsorbed ==
    ModelInteractionFailed =>
        /\ llm_result = FallbackDecision
        /\ Done => response = NoMatchEnvelope

\* C3: a failure to open the connection to one backend does not abort the
\* request: every configured backend is still connected to, the ones that
\* connected are asked for their catalogs, and the model is consulted.
C3_ConnectFailureTolerated ==
    (Done /\ connectFailed # {}) =>
        /\ Range(clients) \subseteq connectAttempts
        /\ Range(clients) \ connectFailed \subseteq aggListCalls
        /\ llmCalls = 1

\* C4: when call_tool raises on the selected backend, the request ends with
\* an HTTP 500 error whose detail carries the tool name, the owning backend
\* and the cause; no envelope is returned.
C4_ToolFailureIs500 ==
    toolCallOutcome = "raised" =>
        /\ Done
        /\ selected_client \in Range(clients)
        /\ toolCalls = { selected_client }
        /\ response.status = 500
        /\ response.kind = "http_exception"
        /\ response.detail_tool = tool_name
        /\ response.detail_backend = selected_client
        /\ response.detail_cause = ToolError
        /\ response.tool = Absent
        /\ response.result = Absent

C4_Witness ==
    Done /\ toolCallOutcome = "raised" /\ response.detail_tool \in KnownTools

\* C5: for a decision whose tool is null or "None", no catalog is listed
\* after the model decision, call_tool is invoked on no backend, and the
\* response is {tool: null, params: {}, result: "No matching tool found."}
\* whatever params the model returned.
C5_NoToolShortCircuits ==
    (llmCalls = 1 /\ llm_result.kind = "object"
                  /\ llm_result.tool \in { NoneVal, "None" }) =>
        /\ scanListCalls = {}
        /\ toolCalls = {}
        /\ Done
        /\ response = NoMatchEnvelope

C5_Witness ==
    /\ Done
    /\ llm_result.kind = "object"
    /\ llm_result.tool = "None"
    /\ llm_result.params = SomeParams
    /\ response = NoMatchEnvelope

\* The model decided on a tool name that no configured backend serves.
DecidedAbsentTool ==
    /\ llmCalls = 1
    /\ llm_result.kind = "object"
    /\ "tool" \in llm_result.keys
    /\ \A i \in 1..Len(clients) : ~Serves(clients[i], llm_result.tool)

\* C6, as stated: a decided tool name that is not null and not "None" and
\* is in no backend's catalog gives the envelope {tool, params, result:
\* "Tool not found in any client."} and call_tool is never invoked.
C6_AbsentToolNotFound ==
    (DecidedAbsentTool /\ llm_result.tool \notin { NoneVal, "None" }) =>
        /\ toolCalls = {}
        /\ response.kind # "unhandled"
        /\ Done => response = NotFoundEnvelope(llm_result.tool, llm_result.params)

\* C6, amended: a decided tool name that is not null, not the empty string
\* and not "None", and is in no backend's catalog, gives the envelope
\* {tool, params, result: "Tool not found in any client."} and call_tool is
\* never invoked.
C6_NonEmptyAbsentToolNotFound ==
    (DecidedAbsentTool /\ llm_result.tool \notin { NoneVal, "None", "" }) =>
        /\ toolCalls = {}
        /\ response.kind # "unhandled"
        /\ Done => response = NotFoundEnvelope(llm_result.tool, llm_result.params)

C6_Witness ==
    /\ Done
    /\ llm_result.tool = UnknownTool
    /\ \E i \in 1..Len(clients) : catalog[clients[i]] # << >>
    /\ response = NotFoundEnvelope(UnknownTool, SomeParams)

\* C7: when two configured backends both serve the decided tool, the one
\* later in configuration order is neither selected nor invoked (unless the
\* earlier one's catalog fetch failed in the owner scan); the backend that
\* is selected is the first one, in configuration order, whose fetch
\* succeeded and whose catalog has the tool; a backend whose fetch fails in
\* the scan is skipped and the request does not fail for it.
C7_FirstOwnerWins ==
    /\ \A i, j \in 1..Len(clients) :
          ( /\ i < j
            /\ Serves(clients[i], tool_name)
            /\ Serves(clients[j], tool_name)
            /\ clients[i] \notin scanListFailed ) =>
              /\ clients[j] \notin toolCalls
              /\ pc \in { "call", "done" } => selected_client # clients[j]
    /\ (pc \in { "call", "done" } /\ selected_client # 0) =>
          \E k \in 1..Len(clients) :
              /\ selected_client = clients[k]
              /\ Serves(clients[k], tool_name)
              /\ clients[k] \notin scanListFailed
              /\ \A i \in 1..(k - 1) :
                    \/ ~Serves(clients[i], tool_name)
                    \/ clients[i] \in scanListFailed
    /\ toolCalls \subseteq { selected_client }
    /\ (Done /\ scanListFailed # {}) =>
          /\ response.kind # "unhandled"
          /\ response.kind = "envelope" \/ toolCallOutcome = "raised"
          /\ selected_client = 0 => scanListCalls = Range(clients)

C7_Witness ==
    /\ Done
    /\ Len(clients) = 2
    /\ Serves(clients[1], tool_name)
    /\ Serves(clients[2], tool_name)
    /\ toolCalls = { clients[1] }
    /\ response.executed_from = clients[1]

\* The catalogs of the backends listed so far, in configuration order, a
\* backend whose list_tools raised contributing nothing.
RECURSIVE MergedFrom(_)
MergedFrom(i) ==
    IF i > Len(clients) THEN << >>
    ELSE (IF clients[i] \in aggListCalls \ aggListFailed
          THEN [ k \in 1..Len(catalog[clients[i]]) |->
                    [ name |-> catalog[clients[i]][k], origin |-> clients[i] ] ]
          ELSE << >>)
         \o MergedFrom(i + 1)

C9_ConfigErrorBeforeCalls ==
    ( /\ message \notin { NoneVal, "" }
      /\ \/ apiKey \in { NoneVal, "" }
         \/ \A e \in Endpoints : urls[e] \in { NoneVal, "" } ) =>
        /\ NoOutsideCalls
        /\ pc \in { "start", "done" }
        /\ Done => (response.status = 500 /\ response.kind = "http_exception")

C9_Witness ==
    /\ Done
    /\ message = " "
    /\ apiKey = "key"
    /\ \A e \in Endpoints : urls[e] \in { NoneVal, "" }
    /\ response.status = 500

\* C10: when the request has ended, on any path, no connection it opened is
\* open: every backend that was connected to has been closed.
C10_ConnectionsReleased ==
    Done =>
        \A e \in Endpoints :
            /\ conn[e] # "open"
            /\ e \in connectAttempts \ connectFailed => conn[e] = "closed"

C10_Witness ==
    /\ Done
    /\ connectFailed # {}
    /\ \E e \in Endpoints : conn[e] = "closed"

====
